---- MODULE Spec2Model ----
(***************************************************************************)
(* State-machine model of the url-shortener service: the POST /api/shorten,*)
(* GET /:shortCode, GET /api/analytics/:shortCode and GET /api/urls        *)
(* handlers of src/src/server.js, the urls table of                        *)
(* src/src/config/database.js, the Redis cache they share and the          *)
(* generator of src/src/utils/shortcode.util.js.                           *)
(*                                                                         *)
(* JavaScript strings are sequences of one-character strings.  A handler   *)
(* runs atomically between two awaits, so every action is one store or     *)
(* cache command taking effect, together with the synchronous code of the  *)
(* handler around it: the code that follows the command up to the next     *)
(* command (or the response), and for a handler's first command the code   *)
(* that precedes it.  The handlers in flight are a bag and the responses   *)
(* sent are a set: requests carry no identity beyond their contents.       *)
(***************************************************************************)
EXTENDS Integers, Sequences, FiniteSets, Bags, TLC

\* ------------------------------------------------------------------ bounds

\* Number of HTTP requests the model lets arrive.
MaxReqs == 2
\* Number of clock steps the model takes.
MaxTicks == 2
\* Number of store or cache commands the model lets fail.
MaxFaults == 1
\* Largest length argument of generateShortCode the model passes.
MaxLen == 3

\* ------------------------------------------------------- program constants

\* setEx(..., 86400, ...): the cache expiry in seconds.
CACHE_TTL == 86400
\* generateShortCode = (length = 6)
DEFAULT_LENGTH == 6
\* short_code VARCHAR(50)
SHORT_CODE_MAX == 50
\* clicks INTEGER DEFAULT 0
CLICKS_DEFAULT == 0

\* Seconds one clock step advances: half the expiry, so that a read can fall
\* strictly between the write of a cache entry and its expiry.
TickSeconds == CACHE_TTL \div 2

\* ----------------------------------------------------------------- values

\* The JavaScript value undefined: a one-element sequence whose element is no
\* single character, so it differs from every string, the empty one included.
Undefined == <<"undefined">>
\* SQL NULL in a TIMESTAMP column.
Null == -1

\* JavaScript truthiness of a string-or-undefined value: if (x), !x.
Truthy(x) == x # Undefined /\ x # <<>>

Range(s) == {s[i] : i \in 1..Len(s)}

RECURSIVE Repeat(_, _)
Repeat(c, n) == IF n = 0 THEN <<>> ELSE <<c>> \o Repeat(c, n - 1)

\* ------------------------------------------------- shortcode.util.js

\* Mutant of B64URL: the alphabet of plain base64.
B64Standard ==
  << "A","B","C","D","E","F","G","H","I","J","K","L","M","N","O","P",
     "Q","R","S","T","U","V","W","X","Y","Z","a","b","c","d","e","f",
     "g","h","i","j","k","l","m","n","o","p","q","r","s","t","u","v",
     "w","x","y","z","0","1","2","3","4","5","6","7","8","9","+","/" >>

B64URL ==
  << "A","B","C","D","E","F","G","H","I","J","K","L","M","N","O","P",
     "Q","R","S","T","U","V","W","X","Y","Z","a","b","c","d","e","f",
     "g","h","i","j","k","l","m","n","o","p","q","r","s","t","u","v",
     "w","x","y","z","0","1","2","3","4","5","6","7","8","9","-","_" >>

\* Buffer.toString('base64url'): three bytes give four characters, a final
\* group of one or two bytes gives two or three, and no padding is written.
RECURSIVE Base64Url(_)
Base64Url(b) ==
  IF Len(b) = 0 THEN <<>>
  ELSE IF Len(b) = 1 THEN
    << B64URL[(b[1] \div 4) + 1],
       B64URL[((b[1] % 4) * 16) + 1] >>
  ELSE IF Len(b) = 2 THEN
    << B64URL[(b[1] \div 4) + 1],
       B64URL[((b[1] % 4) * 16) + (b[2] \div 16) + 1],
       B64URL[((b[2] % 16) * 4) + 1] >>
  ELSE
    << B64URL[(b[1] \div 4) + 1],
       B64URL[((b[1] % 4) * 16) + (b[2] \div 16) + 1],
       B64URL[((b[2] % 16) * 4) + (b[3] \div 64) + 1],
       B64URL[(b[3] % 64) + 1] >>
    \o Base64Url(SubSeq(b, 4, Len(b)))

\* String.prototype.slice(0, n) for n >= 0.
Slice0(s, n) == SubSeq(s, 1, IF n < Len(s) THEN n ELSE Len(s))

\* generateShortCode(length): bytes is what crypto.randomBytes(length) returned.
generateShortCode(length, bytes) == Slice0(Base64Url(bytes), length)

\* Outputs of crypto.randomBytes(6) the model draws from.
RandomBytes == { <<0, 16, 131, 16, 81, 135>> }

\* ------------------------------------------------------------ URL parsing

Lower ==
  [c \in {"H","T","P","S","F"} |->
     CASE c = "H" -> "h" [] c = "T" -> "t" [] c = "P" -> "p"
       [] c = "S" -> "s" [] c = "F" -> "f"]
ToLower(c) == IF c \in DOMAIN Lower THEN Lower[c] ELSE c

Letters == Range(SubSeq(B64URL, 1, 52))
Digits == Range(SubSeq(B64URL, 53, 62))

\* Index of the first ":" of s, 0 when there is none.
ColonAt(s) ==
  IF \E i \in 1..Len(s) : s[i] = ":"
  THEN CHOOSE i \in 1..Len(s) : s[i] = ":" /\ \A j \in 1..(i - 1) : s[j] # ":"
  ELSE 0

\* new URL(url) with no base: the input needs a scheme (a letter, then
\* letters, digits, "+", "-", "."), and a special scheme needs a host.
SpecialSchemes == { <<"h","t","t","p">>, <<"h","t","t","p","s">>, <<"f","t","p">> }

SchemeOf(s) == [i \in 1..(ColonAt(s) - 1) |-> ToLower(s[i])]

RECURSIVE SkipSlashes(_)
SkipSlashes(s) ==
  IF Len(s) > 0 /\ s[1] \in {"/", "\\"} THEN SkipSlashes(Tail(s)) ELSE s

UrlParses(s) ==
  /\ ColonAt(s) > 1
  /\ s[1] \in Letters
  /\ \A i \in 1..(ColonAt(s) - 1) : s[i] \in Letters \cup Digits \cup {"+", "-", "."}
  /\ SchemeOf(s) \in SpecialSchemes =>
       LET rest == SkipSlashes(SubSeq(s, ColonAt(s) + 1, Len(s)))
       IN  Len(rest) > 0 /\ rest[1] \notin {"/", "?", "#", ":", " "}

\* urlObj.protocol: the lower-cased scheme followed by ":".
UrlProtocol(s) == SchemeOf(s) \o <<":">>

\* ----------------------------------------------------------------- inputs

HTTPS_A == <<"h","t","t","p","s",":","/","/","a">>
HTTP_B == <<"H","T","T","P",":","/","/","b">>
FTP_A == <<"f","t","p",":","/","/","a">>
NO_SCHEME == <<"a",".","b">>

CODE_GH == <<"g","h">>
\* A custom code with a character outside the URL-safe alphabet.
CODE_BAD == <<"a"," ">>
\* A custom code one character longer than the short_code column.
CODE_LONG == Repeat("a", SHORT_CODE_MAX + 1)

\* Request bodies of POST /api/shorten the model sends: <<url, customCode>>.
CreateInputs ==
  { <<Undefined, Undefined>>, <<NO_SCHEME, Undefined>>, <<FTP_A, CODE_GH>>,
    <<HTTPS_A, Undefined>>, <<HTTPS_A, CODE_GH>>, <<HTTP_B, CODE_GH>>,
    <<HTTPS_A, CODE_BAD>>, <<HTTPS_A, CODE_LONG>> }

\* Path parameters of GET /:shortCode the model sends.
ResolveInputs == { CODE_GH } \cup { generateShortCode(DEFAULT_LENGTH, b) : b \in RandomBytes }

\* Every code a row, a cache key or a counter update can carry.
Codes == ResolveInputs \cup { in[2] : in \in { x \in CreateInputs : Truthy(x[2]) } }

\* ------------------------------------------------------------------ state

VARIABLES
  urls,          \* the urls table: a sequence of rows in insertion order
  cache,         \* Redis: key -> [value, expiresAt]
  dropped,       \* the keys Redis has dropped so far (expiry or flush)
  handlers,      \* the bag of handlers suspended at an await
  responses,     \* the responses sent so far
  arrived,       \* number of requests received
  redirects,     \* number of res.redirect calls, per code
  pending,       \* counter updates issued and not yet executed, per code
  updateErrors,  \* counter-update failures written to console.error, per code
  now,           \* the clock, in seconds
  faults,        \* store and cache commands that have failed
  genArgs,       \* a call of generateShortCode: its arguments, <<>> or <<length>>
  genBytes,      \*   what crypto.randomBytes returns to that call
  genCode        \*   what the call returned, <<>> before it returns

\* The state of a call of generateShortCode on its own.
genVars == <<genArgs, genBytes, genCode>>

vars == <<urls, cache, dropped, handlers, responses, arrived, redirects, pending,
          updateErrors, now, faults, genArgs, genBytes, genCode>>

\* Redis holding no key.
EmptyCache == [k \in {} |-> 0]

\* ------------------------------------------------------- the urls table

\* Mutant of SelectByCode: the WHERE clause is missing.
SelectAllRows(tbl, code) == tbl

\* SELECT ... FROM urls WHERE short_code = $1
SelectByCode(tbl, code) == SelectSeq(tbl, LAMBDA row : row.short_code = code)

\* Mutant of UniqueViolation: the column is declared without UNIQUE.
NoUniqueConstraint(tbl, code) == FALSE

\* short_code VARCHAR(50) UNIQUE NOT NULL: what makes an INSERT fail.
UniqueViolation(tbl, code) == \E i \in 1..Len(tbl) : tbl[i].short_code = code
TooLong(code) == Len(code) > SHORT_CODE_MAX

\* The row INSERT INTO urls (short_code, original_url) writes at time t.
NewRow(code, url, t) ==
  [ short_code |-> code, original_url |-> url, clicks |-> CLICKS_DEFAULT,
    created_at |-> t, last_accessed |-> Null ]

\* The server starts against a table that is empty or holds a mapping a
\* Create of an earlier run left there, and against a cold cache.
InitialTables == { <<>>, << NewRow(CODE_GH, HTTP_B, 0) >> }

\* The server's part of the initial state.
InitServer ==
  /\ urls \in InitialTables
  /\ cache = EmptyCache
  /\ dropped = {}
  /\ handlers = EmptyBag
  /\ responses = {}
  /\ arrived = 0
  /\ redirects = [c \in Codes |-> 0]
  /\ pending = [c \in Codes |-> 0]
  /\ updateErrors = [c \in Codes |-> 0]
  /\ now = 0
  /\ faults = 0

Init ==
  /\ InitServer
  /\ genArgs = <<>>
  /\ genBytes = <<>>
  /\ genCode = <<>>

\* Mutant of UpdateClicks: the WHERE clause is missing.
UpdateClicksAllRows(tbl, code, t) ==
  [ i \in 1..Len(tbl) |-> [tbl[i] EXCEPT !.clicks = @ + 1, !.last_accessed = t] ]

\* Mutant of UpdateClicks: the update also stamps created_at.
UpdateClicksTouchesCreatedAt(tbl, code, t) ==
  [ i \in 1..Len(tbl) |->
      IF tbl[i].short_code = code
      THEN [tbl[i] EXCEPT !.clicks = @ + 1, !.last_accessed = t, !.created_at = t]
      ELSE tbl[i] ]

\* Mutant of UpdateClicks: the counter moves by two.
UpdateClicksByTwo(tbl, code, t) ==
  [ i \in 1..Len(tbl) |->
      IF tbl[i].short_code = code
      THEN [tbl[i] EXCEPT !.clicks = @ + 2, !.last_accessed = t]
      ELSE tbl[i] ]

\* UPDATE urls SET clicks = clicks + 1, last_accessed = NOW() WHERE short_code = $1
UpdateClicks(tbl, code, t) ==
  [ i \in 1..Len(tbl) |->
      IF tbl[i].short_code = code
      THEN [tbl[i] EXCEPT !.clicks = @ + 1, !.last_accessed = t]
      ELSE tbl[i] ]

\* ---------------------------------------------------------------- Redis

\* Mutant of CacheKey: the code is left out of the key.
CacheKeyShared(code) == <<"u","r","l",":">>

\* `url:${shortCode}`
CacheKey(code) == <<"u","r","l",":">> \o code

\* GET key: the value, or null (here Undefined) when absent or expired.
CacheGet(c, key, t) ==
  IF key \in DOMAIN c /\ t < c[key].expiresAt THEN c[key].value ELSE Undefined

\* Mutant of CacheSetEx: the key is written where the value belongs.
CacheSetExStoresKey(c, key, ttl, value, t) ==
  [ k \in (DOMAIN c) \cup {key} |->
      IF k = key THEN [value |-> key, expiresAt |-> t + ttl] ELSE c[k] ]

\* SETEX key ttl value at time t.
CacheSetEx(c, key, ttl, value, t) ==
  [ k \in (DOMAIN c) \cup {key} |->
      IF k = key THEN [value |-> value, expiresAt |-> t + ttl] ELSE c[k] ]

\* Redis drops the keys whose expiry has passed.
Unexpired(c, t) == [ k \in { x \in DOMAIN c : t < c[x].expiresAt } |-> c[k] ]

\* ------------------------------------------------- handlers, responses

\* A handler that has just been entered: its locals are unset.  seen and hit
\* record what its reads returned (the rows of its SELECT, a cache hit), and
\* evicted that its cache read came after Redis had dropped the key.
NewHandler(kind) ==
  [ kind |-> kind, pc |-> "start", url |-> Undefined, customCode |-> Undefined,
    shortCode |-> Undefined, originalUrl |-> Undefined, result |-> <<>>,
    seen |-> <<>>, hit |-> FALSE, evicted |-> FALSE, page |-> 0, limit |-> 0 ]

NoBody == [error |-> "", location |-> Undefined, shortCode |-> Undefined,
           originalUrl |-> Undefined, createdAt |-> Null, rows |-> <<>>,
           pagination |-> <<>>]

ErrorBody(msg) == [NoBody EXCEPT !.error = msg]

\* What the caller of handler h receives, with the error the catch block
\* logged (caught), the cache's value for h's code as the response leaves and
\* the row h's INSERT returned (result).
Response(h, status, body, caught, c) ==
  [ kind |-> h.kind, url |-> h.url, customCode |-> h.customCode,
    shortCode |-> h.shortCode, status |-> status, body |-> body,
    caught |-> caught, seen |-> h.seen, hit |-> h.hit, evicted |-> h.evicted,
    result |-> h.result,
    cachedAfter |-> IF h.shortCode = Undefined THEN Undefined
                    ELSE CacheGet(c, CacheKey(h.shortCode), now) ]

Suspended == BagToSet(handlers)

\* Handler h (resumed from the bag when old is TRUE, else just entered)
\* suspends again as g.
Suspend(h, old, g) ==
  /\ handlers' = (IF old THEN handlers (-) SetToBag({h}) ELSE handlers) (+) SetToBag({g})
  /\ UNCHANGED responses

\* Handler h ends with res.status(status).json(body).
Respond(h, old, status, body, c) ==
  /\ handlers' = IF old THEN handlers (-) SetToBag({h}) ELSE handlers
  /\ responses' = responses \cup { Response(h, status, body, "none", c) }

\* Handler h throws e inside its try: the catch block logs it and answers 500.
Catch(h, old, e, c) ==
  /\ handlers' = IF old THEN handlers (-) SetToBag({h}) ELSE handlers
  /\ responses' = responses \cup
       { Response(h, 500, ErrorBody("Internal server error"), e, c) }

CanFail == faults < MaxFaults
Fail == CanFail /\ faults' = faults + 1

\* ------------------------------------------------- POST /api/shorten

\* Mutant of Insert: a duplicate is swallowed (ON CONFLICT DO NOTHING) and the
\* handler goes on to cache its own URL.
InsertIgnoringConflict(h, old) ==
  /\ urls' = IF UniqueViolation(urls, h.shortCode) THEN urls
             ELSE Append(urls, NewRow(h.shortCode, h.url, now))
  /\ Suspend(h, old, [h EXCEPT !.pc = "c_setex",
                               !.result = <<NewRow(h.shortCode, h.url, now)>>])
  /\ UNCHANGED faults

\* INSERT INTO urls ... RETURNING ..., awaited by handler h: the row is
\* written unless a constraint of the table rejects it or the store fails,
\* and then the insert throws into the catch block.
Insert(h, old) ==
  \/ /\ ~UniqueViolation(urls, h.shortCode)
     /\ ~TooLong(h.shortCode)
     /\ urls' = Append(urls, NewRow(h.shortCode, h.url, now))
     /\ Suspend(h, old, [h EXCEPT !.pc = "c_setex",
                                  !.result = <<NewRow(h.shortCode, h.url, now)>>])
     /\ UNCHANGED faults
  \/ /\ UniqueViolation(urls, h.shortCode)
     /\ Catch(h, old, "store: duplicate key value violates unique constraint", cache)
     /\ UNCHANGED <<urls, faults>>
  \/ /\ ~UniqueViolation(urls, h.shortCode)
     /\ TooLong(h.shortCode)
     /\ Catch(h, old, "store: value too long for type character varying(50)", cache)
     /\ UNCHANGED <<urls, faults>>
  \/ /\ Fail
     /\ Catch(h, old, "store: insert failed", cache)
     /\ UNCHANGED urls

\* Mutant of CreateBegin: a custom code that exists is pointed at the new URL
\* before the 409 is sent.
CreateBeginOverwrites(url, customCode) ==
  /\ arrived < MaxReqs
  /\ arrived' = arrived + 1
  /\ LET h == [NewHandler("create") EXCEPT !.url = url, !.customCode = customCode] IN
     IF ~Truthy(url) THEN
       /\ Respond(h, FALSE, 400, ErrorBody("URL is required"), cache)
       /\ UNCHANGED <<urls, faults>>
     ELSE IF ~UrlParses(url) THEN
       /\ Catch(h, FALSE, "TypeError: Invalid URL", cache)
       /\ UNCHANGED <<urls, faults>>
     ELSE IF UrlProtocol(url) \notin { <<"h","t","t","p",":">>, <<"h","t","t","p","s",":">> } THEN
       /\ Respond(h, FALSE, 400, ErrorBody("Invalid URL format"), cache)
       /\ UNCHANGED <<urls, faults>>
     ELSE IF Truthy(customCode) THEN
       LET existing == SelectByCode(urls, customCode)
           g == [h EXCEPT !.seen = existing]
       IN
       \/ /\ Len(existing) > 0
          /\ Respond(g, FALSE, 409, ErrorBody("Custom code already exists"), cache)
          /\ urls' = [ i \in 1..Len(urls) |->
                         IF urls[i].short_code = customCode
                         THEN [urls[i] EXCEPT !.original_url = url] ELSE urls[i] ]
          /\ UNCHANGED faults
       \/ /\ Len(existing) = 0
          /\ Suspend(h, FALSE, [g EXCEPT !.pc = "c_insert", !.shortCode = customCode])
          /\ UNCHANGED <<urls, faults>>
       \/ /\ Fail
          /\ Catch(h, FALSE, "store: select failed", cache)
          /\ UNCHANGED urls
     ELSE
       \E bytes \in RandomBytes :
         Insert([h EXCEPT !.shortCode = generateShortCode(DEFAULT_LENGTH, bytes)], FALSE)
  /\ UNCHANGED <<cache, dropped, redirects, pending, updateErrors, now>>
  /\ UNCHANGED genVars

\* A request arrives: the body is read and validated; for a custom code the
\* existence query runs, otherwise a code is generated and the insert runs.
CreateBegin(url, customCode) ==
  /\ arrived < MaxReqs
  /\ arrived' = arrived + 1
  /\ LET h == [NewHandler("create") EXCEPT !.url = url, !.customCode = customCode] IN
     IF ~Truthy(url) THEN
       /\ Respond(h, FALSE, 400, ErrorBody("URL is required"), cache)
       /\ UNCHANGED <<urls, faults>>
     ELSE IF ~UrlParses(url) THEN
       /\ Catch(h, FALSE, "TypeError: Invalid URL", cache)
       /\ UNCHANGED <<urls, faults>>
     ELSE IF UrlProtocol(url) \notin { <<"h","t","t","p",":">>, <<"h","t","t","p","s",":">> } THEN
       /\ Respond(h, FALSE, 400, ErrorBody("Invalid URL format"), cache)
       /\ UNCHANGED <<urls, faults>>
     ELSE IF Truthy(customCode) THEN
       LET existing == SelectByCode(urls, customCode)
           g == [h EXCEPT !.seen = existing]
       IN
       \/ /\ Len(existing) > 0
          /\ Respond(g, FALSE, 409, ErrorBody("Custom code already exists"), cache)
          /\ UNCHANGED <<urls, faults>>
       \/ /\ Len(existing) = 0
          /\ Suspend(h, FALSE, [g EXCEPT !.pc = "c_insert", !.shortCode = customCode])
          /\ UNCHANGED <<urls, faults>>
       \/ /\ Fail
          /\ Catch(h, FALSE, "store: select failed", cache)
          /\ UNCHANGED urls
     ELSE
       \E bytes \in RandomBytes :
         Insert([h EXCEPT !.shortCode = generateShortCode(DEFAULT_LENGTH, bytes)], FALSE)
  /\ UNCHANGED <<cache, dropped, redirects, pending, updateErrors, now>>
  /\ UNCHANGED genVars

\* The insert of a handler whose custom code passed the existence query.
CreateInsert(h) ==
  /\ h.pc = "c_insert"
  /\ Insert(h, TRUE)
  /\ UNCHANGED <<cache, dropped, arrived, redirects, pending, updateErrors, now>>
  /\ UNCHANGED genVars

\* await redisClient.setEx(`url:${shortCode}`, 86400, url), then the 201.
CreateSetEx(h) ==
  /\ h.pc = "c_setex"
  /\ \/ LET c == CacheSetEx(cache, CacheKey(h.shortCode), CACHE_TTL, h.url, now) IN
        /\ cache' = c
        /\ Respond(h, TRUE, 201,
                   [NoBody EXCEPT !.shortCode = h.result[1].short_code,
                                  !.originalUrl = h.result[1].original_url,
                                  !.createdAt = h.result[1].created_at], c)
        /\ UNCHANGED faults
     \/ /\ Fail
        /\ Catch(h, TRUE, "cache: setEx failed", cache)
        /\ UNCHANGED cache
  /\ UNCHANGED <<urls, dropped, arrived, redirects, pending, updateErrors, now>>
  /\ UNCHANGED genVars

\* ---------------------------------------------------- GET /:shortCode

\* Mutant of UpdateAndRedirect: the counter update is issued twice.
UpdateAndRedirectTwice(h, old, c) ==
  /\ pending' = [pending EXCEPT ![h.shortCode] = @ + 2]
  /\ redirects' = [redirects EXCEPT ![h.shortCode] = @ + 1]
  /\ Respond(h, old, 302, [NoBody EXCEPT !.location = h.originalUrl], c)

\* pool.query('UPDATE ...').catch(console.error), issued and not awaited,
\* then res.redirect(originalUrl), which ends handler h.
UpdateAndRedirect(h, old, c) ==
  /\ pending' = [pending EXCEPT ![h.shortCode] = @ + 1]
  /\ redirects' = [redirects EXCEPT ![h.shortCode] = @ + 1]
  /\ Respond(h, old, 302, [NoBody EXCEPT !.location = h.originalUrl], c)

\* Mutant of ResolveBegin: a hit writes the entry again, with a new expiry.
ResolveBeginSliding(code) ==
  /\ arrived < MaxReqs
  /\ arrived' = arrived + 1
  /\ LET h == [NewHandler("resolve") EXCEPT !.shortCode = code,
                                            !.evicted = CacheKey(code) \in dropped]
         v == CacheGet(cache, CacheKey(code), now)
     IN
     \/ /\ Truthy(v)
        /\ cache' = CacheSetEx(cache, CacheKey(code), CACHE_TTL, v, now)
        /\ UpdateAndRedirect([h EXCEPT !.originalUrl = v, !.hit = TRUE], FALSE, cache')
        /\ UNCHANGED faults
     \/ /\ ~Truthy(v)
        /\ Suspend(h, FALSE, [h EXCEPT !.pc = "r_select"])
        /\ UNCHANGED <<cache, redirects, pending, faults>>
     \/ /\ Fail
        /\ Catch(h, FALSE, "cache: get failed", cache)
        /\ UNCHANGED <<cache, redirects, pending>>
  /\ UNCHANGED <<urls, dropped, updateErrors, now>>
  /\ UNCHANGED genVars

\* A request arrives and the cache is read.
ResolveBegin(code) ==
  /\ arrived < MaxReqs
  /\ arrived' = arrived + 1
  /\ LET h == [NewHandler("resolve") EXCEPT !.shortCode = code,
                                            !.evicted = CacheKey(code) \in dropped]
         v == CacheGet(cache, CacheKey(code), now)
     IN
     \/ /\ Truthy(v)
        /\ UpdateAndRedirect([h EXCEPT !.originalUrl = v, !.hit = TRUE], FALSE, cache)
        /\ UNCHANGED faults
     \/ /\ ~Truthy(v)
        /\ Suspend(h, FALSE, [h EXCEPT !.pc = "r_select"])
        /\ UNCHANGED <<redirects, pending, faults>>
     \/ /\ Fail
        /\ Catch(h, FALSE, "cache: get failed", cache)
        /\ UNCHANGED <<redirects, pending>>
  /\ UNCHANGED <<urls, cache, dropped, updateErrors, now>>
  /\ UNCHANGED genVars

\* The store read of a cache miss.
ResolveSelect(h) ==
  /\ h.pc = "r_select"
  /\ LET result == SelectByCode(urls, h.shortCode)
         g == [h EXCEPT !.seen = result]
     IN
     \/ /\ Len(result) = 0
        /\ Respond(g, TRUE, 404, ErrorBody("Short URL not found"), cache)
        /\ UNCHANGED faults
     \/ /\ Len(result) # 0
        /\ Suspend(h, TRUE, [g EXCEPT !.pc = "r_setex", !.originalUrl = result[1].original_url])
        /\ UNCHANGED faults
     \/ /\ Fail
        /\ Catch(h, TRUE, "store: select failed", cache)
  /\ UNCHANGED <<urls, cache, dropped, arrived, redirects, pending, updateErrors, now>>
  /\ UNCHANGED genVars

\* Mutant of ResolveSetEx: a miss redirects without writing the cache.
ResolveSetExNoWrite(h) ==
  /\ h.pc = "r_setex"
  /\ UpdateAndRedirect(h, TRUE, cache)
  /\ UNCHANGED <<urls, cache, dropped, arrived, updateErrors, now, faults>>
  /\ UNCHANGED genVars

\* The cache write of a miss, then the counter update and the redirect.
ResolveSetEx(h) ==
  /\ h.pc = "r_setex"
  /\ \/ LET c == CacheSetEx(cache, CacheKey(h.shortCode), CACHE_TTL, h.originalUrl, now) IN
        /\ cache' = c
        /\ UpdateAndRedirect(h, TRUE, c)
        /\ UNCHANGED faults
     \/ /\ Fail
        /\ Catch(h, TRUE, "cache: setEx failed", cache)
        /\ UNCHANGED <<cache, redirects, pending>>
  /\ UNCHANGED <<urls, dropped, arrived, updateErrors, now>>
  /\ UNCHANGED genVars

\* The store executes an issued counter update.
UpdateDone(code) ==
  /\ pending[code] > 0
  /\ pending' = [pending EXCEPT ![code] = @ - 1]
  /\ urls' = UpdateClicks(urls, code, now)
  /\ UNCHANGED <<cache, dropped, handlers, responses, arrived, redirects, updateErrors, now, faults>>
  /\ UNCHANGED genVars

\* Mutant of UpdateFails: the failed update is logged and issued again.
UpdateFailsRetried(code) ==
  /\ pending[code] > 0
  /\ Fail
  /\ updateErrors' = [updateErrors EXCEPT ![code] = @ + 1]
  /\ UNCHANGED <<urls, cache, dropped, handlers, responses, arrived, redirects, pending, now>>
  /\ UNCHANGED genVars

\* An issued counter update fails: .catch(console.error) logs it.
UpdateFails(code) ==
  /\ pending[code] > 0
  /\ Fail
  /\ pending' = [pending EXCEPT ![code] = @ - 1]
  /\ updateErrors' = [updateErrors EXCEPT ![code] = @ + 1]
  /\ UNCHANGED <<urls, cache, dropped, handlers, responses, arrived, redirects, now>>
  /\ UNCHANGED genVars

\* ------------------------------------------- GET /api/analytics/:shortCode

\* Path parameters of GET /api/analytics/:shortCode the model sends.
AnalyticsInputs == { CODE_GH }

\* A request arrives and the row of the code is read and returned.
Analytics(code) ==
  /\ arrived < MaxReqs
  /\ arrived' = arrived + 1
  /\ LET result == SelectByCode(urls, code)
         h == [NewHandler("analytics") EXCEPT !.shortCode = code, !.seen = result]
     IN
     \/ /\ Len(result) = 0
        /\ Respond(h, FALSE, 404, ErrorBody("Short URL was not found "), cache)
        /\ UNCHANGED faults
     \/ /\ Len(result) # 0
        /\ Respond(h, FALSE, 200, [NoBody EXCEPT !.rows = <<result[1]>>], cache)
        /\ UNCHANGED faults
     \/ /\ Fail
        /\ Catch([h EXCEPT !.seen = <<>>], FALSE, "store: select failed", cache)
  /\ UNCHANGED <<urls, cache, dropped, redirects, pending, updateErrors, now>>
  /\ UNCHANGED genVars

\* ------------------------------------------------------- GET /api/urls

DigitValue ==
  [c \in Digits |-> CHOOSE d \in 0..9 : B64URL[53 + d] = c]

\* parseInt(q) for an absent parameter or a decimal numeral: the number its
\* leading digits spell, NaN (here 0, as falsy as NaN) when it has none.
RECURSIVE ParseDigits(_, _)
ParseDigits(q, acc) ==
  IF Len(q) = 0 \/ q[1] \notin Digits THEN acc
  ELSE ParseDigits(Tail(q), (10 * acc) + DigitValue[q[1]])

ParseInt(q) == IF q = Undefined THEN 0 ELSE ParseDigits(q, 0)

\* parseInt(q) || d
ParseIntOr(q, d) == IF ParseInt(q) # 0 THEN ParseInt(q) ELSE d

\* Math.ceil(a / b) for a >= 0, b > 0.
CeilDiv(a, b) == (a + b - 1) \div b

\* ORDER BY created_at DESC: the orders of the table's rows the store may
\* return (rows with equal created_at come in any order).
OrderedDesc(tbl) ==
  { [i \in 1..Len(tbl) |-> tbl[p[i]]] :
      p \in { q \in [1..Len(tbl) -> 1..Len(tbl)] :
                /\ \A i, j \in 1..Len(tbl) : q[i] = q[j] => i = j
                /\ \A i, j \in 1..Len(tbl) :
                     i < j => tbl[q[i]].created_at >= tbl[q[j]].created_at } }

\* LIMIT limit OFFSET offset of an ordered result.
LimitOffset(rows, limit, offset) ==
  SubSeq(rows, offset + 1, IF offset + limit < Len(rows) THEN offset + limit ELSE Len(rows))

\* Query strings of GET /api/urls the model sends: <<page, limit>>.
ListInputs == { <<Undefined, Undefined>> }

\* A request arrives and the page of rows is read.
ListBegin(pageQ, limitQ) ==
  /\ arrived < MaxReqs
  /\ arrived' = arrived + 1
  /\ LET page == ParseIntOr(pageQ, 1)
         limit == ParseIntOr(limitQ, 10)
         offset == (page - 1) * limit
         h == [NewHandler("list") EXCEPT !.page = page, !.limit = limit]
     IN
     \/ /\ \E rows \in OrderedDesc(urls) :
             Suspend(h, FALSE, [h EXCEPT !.pc = "l_count",
                                         !.result = LimitOffset(rows, limit, offset)])
        /\ UNCHANGED faults
     \/ /\ Fail
        /\ Catch(h, FALSE, "store: select failed", cache)
  /\ UNCHANGED <<urls, cache, dropped, redirects, pending, updateErrors, now>>
  /\ UNCHANGED genVars

\* The count query (SELECT * FROM urls), then the 200.
ListCount(h) ==
  /\ h.pc = "l_count"
  /\ \/ /\ Respond(h, TRUE, 200,
                   [NoBody EXCEPT !.rows = h.result,
                                  !.pagination = << [ page |-> h.page, limit |-> h.limit,
                                                      totalCount |-> Len(urls),
                                                      totalPages |-> CeilDiv(Len(urls), h.limit) ] >>],
                   cache)
        /\ UNCHANGED faults
     \/ /\ Fail
        /\ Catch(h, TRUE, "store: select failed", cache)
  /\ UNCHANGED <<urls, cache, dropped, arrived, redirects, pending, updateErrors, now>>
  /\ UNCHANGED genVars

\* ------------------------------------------------------- environment

\* Time passes; Redis drops the entries whose expiry has come.
Tick ==
  /\ now < MaxTicks * TickSeconds
  /\ now' = now + TickSeconds
  /\ cache' = Unexpired(cache, now + TickSeconds)
  /\ dropped' = dropped \cup ((DOMAIN cache) \ DOMAIN Unexpired(cache, now + TickSeconds))
  /\ UNCHANGED <<urls, handlers, responses, arrived, redirects, pending, updateErrors, faults>>
  /\ UNCHANGED genVars

\* The cache is flushed (FLUSHALL, a restart, memory eviction).
Flush ==
  /\ DOMAIN cache # {}
  /\ cache' = EmptyCache
  /\ dropped' = dropped \cup DOMAIN cache
  /\ UNCHANGED <<urls, handlers, responses, arrived, redirects, pending, updateErrors, now, faults>>
  /\ UNCHANGED genVars

Next ==
  \/ \E in \in CreateInputs : CreateBegin(in[1], in[2])
  \/ \E h \in Suspended : CreateInsert(h)
  \/ \E h \in Suspended : CreateSetEx(h)
  \/ \E code \in ResolveInputs : ResolveBegin(code)
  \/ \E h \in Suspended : ResolveSelect(h)
  \/ \E h \in Suspended : ResolveSetEx(h)
  \/ \E code \in AnalyticsInputs : Analytics(code)
  \/ \E in \in ListInputs : ListBegin(in[1], in[2])
  \/ \E h \in Suspended : ListCount(h)
  \/ \E code \in Codes : UpdateDone(code)
  \/ \E code \in Codes : UpdateFails(code)
  \/ Tick
  \/ Flush

Spec == Init /\ [][Next]_vars

\* ------------------------------------------- generateShortCode on its own

\* Byte values crypto.randomBytes is let to return: all bits clear, all bits
\* set, and one whose leading six bits select the last-but-one character.
ByteSamples == { 0, 251, 255 }

\* The default parameter: (length = 6).
LengthOf(args) == IF args = <<>> THEN DEFAULT_LENGTH ELSE args[1]

\* A call generateShortCode() or generateShortCode(L) is about to run, and
\* crypto.randomBytes(length) will return genBytes.
InitGen ==
  /\ InitServer
  /\ genArgs \in { <<>> } \cup { <<L>> : L \in 1..MaxLen }
  /\ genBytes \in [1..LengthOf(genArgs) -> ByteSamples]
  /\ genCode = <<>>

\* The call returns.
Generate ==
  /\ genCode = <<>>
  /\ genCode' = generateShortCode(LengthOf(genArgs), genBytes)
  /\ UNCHANGED <<genArgs, genBytes>>
  /\ UNCHANGED <<urls, cache, dropped, handlers, responses, arrived, redirects,
                 pending, updateErrors, now, faults>>

NextGen == Generate

SpecGen == InitGen /\ [][NextGen]_vars

\* ------------------------------------------------------------ properties

Creates == { c \in responses : c.kind = "create" }
Resolves == { g \in responses : g.kind = "resolve" }

\* The rows of the table that carry a code, read from the table itself.
RowsOf(code) == { i \in 1..Len(urls) : urls[i].short_code = code }
UrlsOf(code) == { urls[i].original_url : i \in RowsOf(code) }

RECURSIVE SumClicks(_)
SumClicks(S) ==
  IF S = {} THEN 0
  ELSE LET i == CHOOSE x \in S : TRUE IN urls[i].clicks + SumClicks(S \ {i})

\* The clicks recorded for a code (0 while it has no row).
Clicks(code) == SumClicks(RowsOf(code))

\* C1: a Create answered 201 and a Resolve of the code it returned that is
\* answered with a redirect: the redirect's target is the URL submitted to
\* the Create, whether the Resolve hit the cache or went to the store.
CreateThenResolve ==
  \A c \in Creates, g \in Resolves :
    (c.status = 201 /\ g.status = 302 /\ g.shortCode = c.body.shortCode)
      => g.body.location = c.url

\* C1 witness: a Create was answered 201 with its entry cached, Redis then
\* dropped the entry, and a Resolve of the returned code was redirected.
CreateThenResolveWitness ==
  \E c \in Creates, g \in Resolves :
    /\ c.status = 201 /\ c.cachedAfter = c.url
    /\ g.status = 302 /\ g.shortCode = c.body.shortCode /\ ~g.hit /\ g.evicted

\* C2: the table never holds two rows with the same short_code.
UniqueCodes ==
  \A i, j \in 1..Len(urls) : urls[i].short_code = urls[j].short_code => i = j

\* C2 witness: a Create with a custom code passed the existence query (it saw
\* no row) and its insert was then rejected as a duplicate: the race was lost.
UniqueCodesWitness ==
  \E c \in Creates :
    /\ Truthy(c.customCode) /\ c.shortCode = c.customCode /\ c.seen = <<>>
    /\ c.caught = "store: duplicate key value violates unique constraint"
    /\ Cardinality(RowsOf(c.customCode)) = 1

\* C3: a Create with a custom code whose existence query ran while a row with
\* that code existed is answered 409, and from then on exactly one row
\* carries the code, with the URL it had before the call, which is the URL of
\* every Create answered 201 for that code.
CustomCodeConflict ==
  \A c \in Creates :
    Len(c.seen) > 0
      => /\ c.status = 409
         /\ Cardinality(RowsOf(c.customCode)) = 1
         /\ UrlsOf(c.customCode) = { c.seen[1].original_url }
         /\ \A d \in Creates :
              (d.status = 201 /\ d.body.shortCode = c.customCode)
                => UrlsOf(c.customCode) = { d.url }

\* C3 witness: a second Create with the custom code of an earlier 201, and
\* another URL, was answered 409.
CustomCodeConflictWitness ==
  \E c \in Creates, d \in Creates :
    /\ d.status = 201 /\ c.status = 409
    /\ c.customCode = d.body.shortCode /\ c.url # d.url
    /\ UrlsOf(c.customCode) = { d.url }

\* C4: every Create whose insert the uniqueness constraint rejected is
\* answered with the conflict status 409.
UniqueRejectionIsConflict ==
  \A c \in Creates :
    c.caught = "store: duplicate key value violates unique constraint"
      => c.status = 409

\* C5: a Resolve that completes without an error on a code that has no row
\* is answered 404, and the cache holds no entry for that code, neither as
\* the response leaves nor in any later state in which the code has no row.
ResolveNotFound ==
  \A g \in Resolves :
    (g.caught = "none" /\ RowsOf(g.shortCode) = {})
      => /\ g.status = 404
         /\ g.cachedAfter = Undefined
         /\ CacheKey(g.shortCode) \notin DOMAIN cache

\* C5 witness: a Resolve was answered 404 while another code is cached.
ResolveNotFoundWitness ==
  \E g \in Resolves :
    /\ g.status = 404 /\ RowsOf(g.shortCode) = {}
    /\ DOMAIN cache # {}

\* C6: a Resolve that reads the cache after Redis dropped the entry of a
\* mapping (expiry or flush), misses, and completes without an error is
\* answered with a redirect to the mapping's originalUrl, and as it answers
\* the cache holds code -> originalUrl again.
ResolveAfterEviction ==
  \A g \in Resolves :
    (g.caught = "none" /\ g.evicted /\ ~g.hit /\ RowsOf(g.shortCode) # {})
      => /\ g.status = 302
         /\ { g.body.location } = UrlsOf(g.shortCode)
         /\ { g.cachedAfter } = UrlsOf(g.shortCode)

\* C6 witness: one code was resolved after an expiry of its entry (the clock
\* has passed the expiry of an entry written at the row's creation).
ResolveAfterEvictionWitness ==
  \E g \in Resolves :
    /\ g.status = 302 /\ g.evicted /\ ~g.hit
    /\ \E i \in RowsOf(g.shortCode) : now >= urls[i].created_at + CACHE_TTL
    /\ CacheKey(g.shortCode) \in DOMAIN cache
    /\ cache[CacheKey(g.shortCode)].expiresAt = now + CACHE_TTL

\* C7: once every counter update issued for a code has been executed and
\* none has failed, the code's clicks equals the number of Resolve calls on
\* it that redirected.
ClicksCountRedirects ==
  \A code \in Codes :
    (pending[code] = 0 /\ updateErrors[code] = 0) => Clicks(code) = redirects[code]

\* C7 witness: two Resolves of one code overlapped (both missed although
\* Redis never dropped the key, so the second read the cache before the first
\* wrote it), both updates are done, and clicks is 2.
ClicksCountRedirectsWitness ==
  \E code \in Codes :
    /\ redirects[code] = 2 /\ pending[code] = 0 /\ updateErrors[code] = 0
    /\ Clicks(code) = 2
    /\ CacheKey(code) \notin dropped
    /\ \A g \in Resolves : g.shortCode = code => ~g.hit
    /\ \A c \in Creates : c.shortCode = code => c.status # 201

\* C8: a Create whose cache write failed after its insert succeeded is
\* answered 201 with the persisted mapping.
CreateSurvivesCacheFailure ==
  \A c \in Creates :
    c.caught = "cache: setEx failed"
      => /\ c.status = 201
         /\ c.body.shortCode = c.shortCode
         /\ c.body.originalUrl = c.url

\* C9: a Resolve whose cache read or cache write failed is answered from the
\* store: a redirect to the originalUrl when the code has a row, 404 otherwise.
ResolveSurvivesCacheFailure ==
  \A g \in Resolves :
    g.caught \in { "cache: get failed", "cache: setEx failed" }
      => IF RowsOf(g.shortCode) # {}
         THEN g.status = 302 /\ { g.body.location } = UrlsOf(g.shortCode)
         ELSE g.status = 404

\* C10: every redirect issues exactly one counter update, which is pending,
\* executed or failed and logged; a failed update is not issued again, and
\* the Resolve that issued it was answered with the redirect to originalUrl.
OneUpdatePerRedirect ==
  \A code \in Codes :
    /\ redirects[code] = Clicks(code) + pending[code] + updateErrors[code]
    /\ updateErrors[code] > 0 =>
         \E g \in Resolves :
           /\ g.shortCode = code /\ g.status = 302 /\ g.caught = "none"
           /\ { g.body.location } = UrlsOf(code)

\* C10 witness: of two redirects of a code one update failed and one was
\* executed, and nothing is pending.
OneUpdatePerRedirectWitness ==
  \E code \in Codes :
    /\ updateErrors[code] = 1 /\ pending[code] = 0
    /\ redirects[code] = 2 /\ Clicks(code) = 1

HttpSchemes == { <<"h","t","t","p",":">>, <<"h","t","t","p","s",":">> }

\* The url of a Create body is missing, does not parse, or parses to a scheme
\* other than http and https.
InvalidUrl(url) ==
  \/ ~Truthy(url)
  \/ ~UrlParses(url)
  \/ UrlProtocol(url) \notin HttpSchemes

\* C11: every Create with a missing or invalid URL is answered 400 and has
\* inserted no row and written no cache entry.
InvalidUrlRejected ==
  \A c \in Creates :
    InvalidUrl(c.url) => (c.status = 400 /\ c.result = <<>> /\ c.shortCode = Undefined)

\* C12: every cache entry code -> u has a row with that code and
\* original_url = u, in every state, between any two steps of any handler and
\* after any failure.
CacheMirrorsStore ==
  \A k \in DOMAIN cache :
    \E i \in 1..Len(urls) :
      CacheKey(urls[i].short_code) = k /\ urls[i].original_url = cache[k].value

\* C12 witness: the cache holds an entry while a Create that lost the race on
\* its custom code has failed at its insert, after another Create of that code
\* with another URL had inserted.
CacheMirrorsStoreWitness ==
  \E c \in Creates :
    /\ c.caught = "store: duplicate key value violates unique constraint"
    /\ CacheKey(c.shortCode) \in DOMAIN cache
    /\ cache[CacheKey(c.shortCode)].value # c.url

Analyses == { a \in responses : a.kind = "analytics" }
Listings == { l \in responses : l.kind = "list" }

\* A counter update issued by a Resolve of the code is executed in this step.
UpdateExecuted(code) == pending'[code] = pending[code] - 1

\* C13: no step removes a row or changes a row's short_code, original_url or
\* created_at; a row changes only in the step that executes a counter update
\* a Resolve of that row's code issued, and then only in clicks and
\* last_accessed.
RowsKeepIdentity ==
  [][ /\ Len(urls') >= Len(urls)
      /\ \A i \in 1..Len(urls) :
           /\ urls'[i].short_code = urls[i].short_code
           /\ urls'[i].original_url = urls[i].original_url
           /\ urls'[i].created_at = urls[i].created_at
           /\ urls'[i] # urls[i] => UpdateExecuted(urls[i].short_code) ]_vars

\* C13 witness: a row created at an earlier time has been resolved and its
\* counter updated, and a listing that read it has answered 200.
RowsKeepIdentityWitness ==
  \E i \in 1..Len(urls), l \in Listings :
    /\ urls[i].clicks > 0 /\ urls[i].last_accessed > urls[i].created_at
    /\ l.status = 200
    /\ \E j \in 1..Len(l.body.rows) : l.body.rows[j].short_code = urls[i].short_code

\* C14: a row is inserted with clicks 0, and a step changes a row's clicks
\* only by adding exactly 1, in the execution of a counter update a Resolve
\* of the row's code issued.
ClicksIncrementOnly ==
  [][ \A i \in 1..Len(urls') :
        IF i > Len(urls) THEN urls'[i].clicks = 0
        ELSE \/ urls'[i].clicks = urls[i].clicks
             \/ /\ urls'[i].clicks = urls[i].clicks + 1
                /\ UpdateExecuted(urls[i].short_code) ]_vars

\* C14 witness: a row a Create of this run inserted has been resolved once
\* and its counter update executed.
ClicksIncrementOnlyWitness ==
  \E c \in Creates :
    /\ c.status = 201
    /\ \E i \in RowsOf(c.body.shortCode) :
         urls[i].clicks = 1 /\ urls[i].last_accessed # Null

\* A-Z, a-z, 0-9, "-", "_".
UrlSafeAlphabet ==
  { "A","B","C","D","E","F","G","H","I","J","K","L","M","N","O","P","Q","R",
    "S","T","U","V","W","X","Y","Z","a","b","c","d","e","f","g","h","i","j",
    "k","l","m","n","o","p","q","r","s","t","u","v","w","x","y","z","0","1",
    "2","3","4","5","6","7","8","9","-","_" }

\* The constraints on a code: URL-safe characters, and a length the
\* short_code column accepts.
ValidCode(code) ==
  /\ Range(code) \subseteq UrlSafeAlphabet
  /\ Len(code) <= SHORT_CODE_MAX

\* C15: every Create with a valid URL and a custom code that breaks the code
\* constraints is answered 400, and no row and no cache entry carries that
\* code.
MalformedCodeRejected ==
  \A c \in Creates :
    (~InvalidUrl(c.url) /\ Truthy(c.customCode) /\ ~ValidCode(c.customCode))
      => /\ c.status = 400
         /\ RowsOf(c.customCode) = {}
         /\ CacheKey(c.customCode) \notin DOMAIN cache

\* C16: a returned code has exactly the length asked for, 6 when no length
\* was passed, and every character of it is in the URL-safe alphabet.
GeneratedCodeShape ==
  genCode # <<>> =>
    /\ genArgs # <<>> => Len(genCode) = genArgs[1]
    /\ genArgs = <<>> => Len(genCode) = 6
    /\ Range(genCode) \subseteq UrlSafeAlphabet

\* C16 witness: a call without argument returned a code in which both
\* characters that set base64url apart from base64 occur.
GeneratedCodeShapeWitness ==
  /\ genArgs = <<>> /\ Len(genCode) = 6
  /\ {"-", "_"} \subseteq Range(genCode)

\* A request arrives in this step and is redirected at once: a cache hit.
HitStep == arrived' = arrived + 1 /\ redirects' # redirects

\* C17: a step that writes a cache entry gives it the expiry now + 86400
\* seconds, and a Resolve that hits the cache leaves every entry, value and
\* expiry, as it was.
AbsoluteExpiry ==
  [][ /\ \A k \in DOMAIN cache' :
           (k \notin DOMAIN cache \/ cache'[k] # cache[k])
             => cache'[k].expiresAt = now + 86400
      /\ HitStep => cache' = cache ]_vars

\* C17 witness: a Resolve has hit an entry written at an earlier time, and
\* the entry still carries the expiry of that write.
AbsoluteExpiryWitness ==
  \E g \in Resolves :
    /\ g.hit /\ g.status = 302
    /\ CacheKey(g.shortCode) \in DOMAIN cache
    /\ cache[CacheKey(g.shortCode)].expiresAt < now + CACHE_TTL
    /\ cache[CacheKey(g.shortCode)].expiresAt > now

\* C18: the step in which a Create is answered 409 changes no row, no cache
\* entry and no issued counter update.
ConflictChangesNothing ==
  [][ (\E c \in responses' \ responses : c.kind = "create" /\ c.status = 409)
        => UNCHANGED <<urls, cache, dropped, pending>> ]_vars

\* C18 witness: a Create was answered 409 on a code that is cached and has
\* been clicked, and the row and the entry are those its pre-check met.
ConflictChangesNothingWitness ==
  \E c \in Creates :
    /\ c.status = 409 /\ c.url # c.seen[1].original_url
    /\ c.seen[1].clicks = 1
    /\ \E i \in RowsOf(c.customCode) : urls[i] = c.seen[1]
    /\ CacheGet(cache, CacheKey(c.customCode), now) = c.seen[1].original_url

\* C19: a Create answered with anything but 201 has inserted no row.
FailedCreateLeavesNoRow ==
  \A c \in Creates : c.status # 201 => c.result = <<>>

\* A Resolve is answered 404 or 500 in this step.
ResolveFailsStep ==
  \E g \in responses' \ responses : g.kind = "resolve" /\ g.status \in {404, 500}

\* C20: in every state a code's clicks is at most the number of redirects
\* of that code, and the step in which a Resolve is answered 404 or 500
\* issues no counter update, counts no redirect and changes no row.
ClicksBoundedByRedirects ==
  /\ [](\A code \in Codes : Clicks(code) <= redirects[code])
  /\ [][ ResolveFailsStep => UNCHANGED <<urls, pending, redirects>> ]_vars

\* C20 witness: one code was resolved and clicked once, and a Resolve of a
\* code without a row was answered 404.
ClicksBoundedByRedirectsWitness ==
  /\ \E g \in Resolves : g.status = 404 /\ Clicks(g.shortCode) = 0
  /\ \E code \in Codes : Clicks(code) = 1 /\ redirects[code] = 1

====
